---- MODULE Spec2Model ----
(***************************************************************************)
(* A model of src/smart/location.rs: SmartHouse (a named Vec<SmartRoom>)   *)
(* and SmartRoom (a named Vec<Arc<dyn Pluggable>>).                        *)
(*                                                                         *)
(* The program is a library; its state is the house, and the room values   *)
(* the caller still owns (Rust moves a room into the house on add, so a    *)
(* room that is in the house can only be changed through a copy the caller *)
(* kept).  A device is an Arc: an object identity with a stable name.      *)
(***************************************************************************)
EXTENDS Naturals, Sequences, FiniteSets, TLC

\* ------------------------------------------------------------------ bounds
\* Number of device references (Arc clones) held by all live rooms together:
\* the caller makes no call that would take the rooms beyond it.
MaxRefs == 3

\* ------------------------------------------------------------- input sets
HouseNames == {"H"}
RoomNames == {"Kitchen", "Office", "Hall"}
\* Device objects (Arc identities); d1 and d2 are distinct objects of one name.
Devices == {"d1", "d2", "d3", "d4"}
DevNames == {"Toaster", "Mixer", "TV"}
Reporters == {"InventoryReport", "FailingReport"}
\* The caller's room variables: it builds one room at a time.
Slots == {1}

\* Pluggable::name(): stable for the lifetime of the object.
Pluggable_name(d) ==
    CASE d = "d1" -> "Toaster"
      [] d = "d2" -> "Toaster"
      [] d = "d3" -> "Mixer"
      [] OTHER    -> "TV"

VARIABLES
    house,   \* the SmartHouse: [name, rooms]
    locals,  \* locals[i]: <<room>> while the caller owns a room in variable i, <<>> otherwise
    last,    \* the last call made and what it returned
    scn,     \* progress of the end-to-end scenario ("off" once a call departs from it)
    twin     \* <<h>> while the caller holds h, a clone of the house; <<>> otherwise

vars == <<house, locals, last, scn, twin>>

\* ------------------------------------------------------- std helpers
\* Iterator::position (and Iterator::find) with the closure |v| key(v) == x:
\* keys lists key(v) for the elements v in order; the result is the index of
\* the first element whose key is x, 0 for None.
position(keys, x) ==
    IF \E i \in 1..Len(keys) : keys[i] = x
    THEN CHOOSE i \in 1..Len(keys) : keys[i] = x /\ \A j \in 1..(i - 1) : keys[j] # x
    ELSE 0

\* iter().map(|d| d.name()) over the devices of a room
DeviceKeys(self) == [i \in 1..Len(self.devices) |-> Pluggable_name(self.devices[i])]

\* Vec::swap_remove: fills the hole with the last element.
swap_remove(s, index) ==
    IF index = Len(s) THEN SubSeq(s, 1, Len(s) - 1)
    ELSE [k \in 1..(Len(s) - 1) |-> IF k = index THEN s[Len(s)] ELSE s[k]]

\* Vec::remove(index): shifts the elements after index to the left.
remove(s, index) == SubSeq(s, 1, index - 1) \o SubSeq(s, index + 1, Len(s))

push_front(s, x) == <<x>> \o s

\* Vec::push
push(s, x) == Append(s, x)

\* ------------------------------------------------------------ SmartRoom
SmartRoom_new(n) == [name |-> n, devices |-> <<>>]

SmartRoom_name(self) == self.name

\* plug comparing the Arc pointers instead of the names
plug_ptr(self, device) ==
    IF position(self.devices, device) # 0
    THEN [self |-> self, ok |-> FALSE,
          out |-> "Device with name " \o Pluggable_name(device) \o " already pluged"]
    ELSE [self |-> [self EXCEPT !.devices = Append(@, device)], ok |-> TRUE, out |-> ""]

\* plug storing the new Arc in place of the one found
plug_replace(self, device) ==
    LET index == position(DeviceKeys(self), Pluggable_name(device))
    IN  IF index # 0
        THEN [self |-> [self EXCEPT !.devices[index] = device], ok |-> FALSE,
              out |-> "Device with name " \o Pluggable_name(device) \o " already pluged"]
        ELSE [self |-> [self EXCEPT !.devices = Append(@, device)], ok |-> TRUE, out |-> ""]

plug(self, device) ==
    IF position(DeviceKeys(self), Pluggable_name(device)) # 0
    THEN [self |-> self, ok |-> FALSE,
          out |-> "Device with name " \o Pluggable_name(device) \o " already pluged"]
    ELSE [self |-> [self EXCEPT !.devices = push(@, device)], ok |-> TRUE, out |-> ""]

\* unplug removing the last device instead of the one found (Vec::pop)
unplug_pop(self, device) ==
    LET index == position(DeviceKeys(self), device)
    IN  IF index # 0 THEN [self EXCEPT !.devices = SubSeq(@, 1, Len(@) - 1)] ELSE self

unplug(self, device) ==
    LET index == position(DeviceKeys(self), device)
    IN  IF index # 0 THEN [self EXCEPT !.devices = remove(@, index)] ELSE self

\* is_connected comparing the Arc pointers instead of the names
is_connected_ptr(self, device) == \E i \in 1..Len(self.devices) : self.devices[i] = device

is_connected(self, device) ==
    \E i \in 1..Len(self.devices) : Pluggable_name(self.devices[i]) = Pluggable_name(device)

devices(self) == [i \in 1..Len(self.devices) |-> Pluggable_name(self.devices[i])]

\* impl fmt::Display for SmartRoom: writeln!(f, "--> Room: {}", self.name())
SmartRoom_fmt(self) == "--> Room: " \o SmartRoom_name(self) \o "\n"

\* #[derive(PartialEq)]: every field compared
eq_derived(self, other) == self.name = other.name /\ self.devices = other.devices

\* impl PartialEq for SmartRoom
eq(self, other) == SmartRoom_name(self) = SmartRoom_name(other)

\* ----------------------------------------------------------- SmartHouse
SmartHouse_new(n) == [name |-> n, rooms |-> <<>>]

SmartHouse_name(self) == self.name

get_rooms(self) == self.rooms

\* get_rooms().iter().map(|r| r.name()) over the rooms of a house
RoomKeys(self) ==
    [i \in 1..Len(get_rooms(self)) |-> SmartRoom_name(get_rooms(self)[i])]

\* Display that goes on to print the rooms of the house
SmartHouse_fmt_rooms(self) ==
    "-> House: " \o self.name \o "\n"
    \o (IF self.rooms = <<>> THEN "" ELSE SmartRoom_fmt(self.rooms[1]))

\* impl fmt::Display for SmartHouse: writeln!(f, "-> House: {}", self.name())
SmartHouse_fmt(self) == "-> House: " \o SmartHouse_name(self) \o "\n"

\* add without the uniqueness check
add_unchecked(self, room) ==
    [self |-> [self EXCEPT !.rooms = Append(@, room)], ok |-> TRUE, out |-> ""]

\* add storing the new room in place of the one found
add_replace(self, room) ==
    LET index == position(RoomKeys(self), room.name)
    IN  IF index # 0
        THEN [self |-> [self EXCEPT !.rooms[index] = room], ok |-> FALSE,
              out |-> "room " \o room.name \o " already constructed"]
        ELSE [self |-> [self EXCEPT !.rooms = Append(@, room)], ok |-> TRUE, out |-> ""]

\* add pushing before it checks
add_push_first(self, room) ==
    IF position(RoomKeys(self), room.name) # 0
    THEN [self |-> [self EXCEPT !.rooms = Append(@, room)], ok |-> FALSE,
          out |-> "room " \o room.name \o " already constructed"]
    ELSE [self |-> [self EXCEPT !.rooms = Append(@, room)], ok |-> TRUE, out |-> ""]

add(self, room) ==
    IF position(RoomKeys(self), SmartRoom_name(room)) # 0
    THEN [self |-> self, ok |-> FALSE,
          out |-> "room " \o SmartRoom_name(room) \o " already constructed"]
    ELSE [self |-> [self EXCEPT !.rooms = push(@, room)], ok |-> TRUE, out |-> ""]

\* del with Vec::swap_remove in place of Vec::remove
del_swap(self, room) ==
    LET index == position(RoomKeys(self), room)
    IN  IF index # 0 THEN [self EXCEPT !.rooms = swap_remove(@, index)] ELSE self

\* del removing the last room when none matches (Vec::pop)
del_pop(self, room) ==
    LET index == position(RoomKeys(self), room)
    IN  IF index # 0 THEN [self EXCEPT !.rooms = remove(@, index)]
        ELSE [self EXCEPT !.rooms = SubSeq(@, 1, Len(@) - 1)]

del(self, room) ==
    LET index == position(RoomKeys(self), room)
    IN  IF index # 0 THEN [self EXCEPT !.rooms = remove(@, index)] ELSE self

\* ------------------------------------------------------------ Reportable
RECURSIVE Concat(_)
Concat(ss) == IF ss = <<>> THEN "" ELSE Head(ss) \o Concat(Tail(ss))

RoomLine(r) == SmartRoom_name(r) \o "[" \o Concat([i \in 1..Len(devices(r)) |-> devices(r)[i] \o ","]) \o "]"

\* Reportable::make for the report strategies of the model.
make(report, smart_house) ==
    CASE report = "InventoryReport" ->
            [ok |-> TRUE,
             out |-> SmartHouse_name(smart_house) \o ":"
                     \o Concat([i \in 1..Len(get_rooms(smart_house)) |->
                                   RoomLine(get_rooms(smart_house)[i])])]
      [] OTHER ->
            [ok |-> FALSE, out |-> "report failed for " \o SmartHouse_name(smart_house)]

\* create_report wrapping the reporter's error in a message of its own
create_report_wrap(self, report) ==
    LET r == make(report, self)
    IN  IF r.ok THEN r ELSE [ok |-> FALSE, out |-> "report error: " \o r.out]

create_report(self, report) == make(report, self)

\* ------------------------------------------------------------ the caller
\* Device references held by all live rooms (the Arc strong counts, summed).
RECURSIVE SumLen(_)
SumLen(rs) == IF rs = <<>> THEN 0 ELSE Len(Head(rs).devices) + SumLen(Tail(rs))

TwinRefs(t) == IF t = <<>> THEN 0 ELSE SumLen(t[1].rooms)

TotalRefs(h, ls) ==
    SumLen(h.rooms)
    + SumLen([i \in DOMAIN ls |-> IF ls[i] = <<>> THEN SmartRoom_new("") ELSE ls[i][1]])
    + TwinRefs(twin)

\* A call as the caller sees it: the operation, the variable and room it was
\* made on, its argument (a name), the device object passed, the result, and
\* whether the call changed the sequence it works on.
Call(op, slot, room, arg, dev, ok, out, changed) ==
    [op |-> op, slot |-> slot, room |-> room, arg |-> arg, dev |-> dev, ok |-> ok,
     out |-> out, changed |-> changed]

\* The end-to-end scenario: add Kitchen (ok), add Kitchen (fails), plug Toaster
\* into Kitchen (ok), plug Toaster into it again (fails), create_report.
\* Constructing a room value is no step of it; any other call leaves it.
ScenarioStages == {"start", "added", "refused", "plugged", "replugged", "done", "off"}
ScenarioDone == "done"

ScenarioStep(s, c) ==
    CASE c.op = "new" /\ s \in {"start", "added"} -> s
      [] c.op = "add" /\ s = "start" /\ c.arg = "Kitchen" /\ c.ok -> "added"
      [] c.op = "add" /\ s = "added" /\ c.arg = "Kitchen" /\ ~c.ok -> "refused"
      [] c.op = "plug" /\ s = "refused" /\ c.room = "Kitchen" /\ c.arg = "Toaster" /\ c.ok
            -> "plugged"
      [] c.op = "plug" /\ s = "plugged" /\ c.room = "Kitchen" /\ c.arg = "Toaster" /\ ~c.ok
            /\ c.slot = last.slot -> "replugged"
      [] c.op = "report" /\ s = "replugged" -> ScenarioDone
      [] OTHER -> "off"

Init ==
    /\ house \in {SmartHouse_new(n) : n \in HouseNames}
    /\ locals = [i \in Slots |-> <<>>]
    /\ last = Call("init", 0, "", "", "", TRUE, "", FALSE)
    /\ scn = "start"
    /\ twin = <<>>

Record(c) ==
    /\ last' = c
    /\ scn' = ScenarioStep(scn, c)
    /\ UNCHANGED twin

\* let mut r_i = SmartRoom::new(n);  (an assignment drops the previous value)
NewRoom(i, n) ==
    /\ locals' = [locals EXCEPT ![i] = <<SmartRoom_new(n)>>]
    /\ TotalRefs(house, locals') <= MaxRefs
    /\ UNCHANGED house
    /\ Record(Call("new", i, n, n, "", TRUE, "", FALSE))

\* plug with names unique over all the rooms of the caller: it refuses a name
\* that another room holds.
Plug_global(i, d) ==
    /\ locals[i] # <<>>
    /\ LET taken == \E j \in DOMAIN locals \ {i} :
                        locals[j] # <<>> /\ position(DeviceKeys(locals[j][1]), Pluggable_name(d)) # 0
           r == IF taken THEN [self |-> locals[i][1], ok |-> FALSE, out |-> "taken"]
                ELSE plug(locals[i][1], d)
       IN  /\ locals' = [locals EXCEPT ![i] = <<r.self>>]
           /\ Record(Call("plug", i, SmartRoom_name(locals[i][1]), Pluggable_name(d), d, r.ok, r.out,
                          r.self # locals[i][1]))
    /\ TotalRefs(house, locals') <= MaxRefs
    /\ UNCHANGED house

\* plug on a room that the house shares with the caller instead of owning it:
\* the room of that name in the house changes with the caller's.
Plug_shared(i, d) ==
    /\ locals[i] # <<>>
    /\ LET r == plug(locals[i][1], d)
       IN  /\ locals' = [locals EXCEPT ![i] = <<r.self>>]
           /\ house' = [house EXCEPT !.rooms =
                  [k \in 1..Len(@) |->
                     IF SmartRoom_name(@[k]) = SmartRoom_name(r.self) THEN r.self ELSE @[k]]]
           /\ Record(Call("plug", i, SmartRoom_name(locals[i][1]), Pluggable_name(d), d, r.ok, r.out,
                          r.self # locals[i][1]))
    /\ TotalRefs(house', locals') <= MaxRefs

\* r_i.plug(d.clone())
Plug(i, d) ==
    /\ locals[i] # <<>>
    /\ LET r == plug(locals[i][1], d)
       IN  /\ locals' = [locals EXCEPT ![i] = <<r.self>>]
           /\ Record(Call("plug", i, SmartRoom_name(locals[i][1]), Pluggable_name(d), d, r.ok, r.out,
                          r.self # locals[i][1]))
    /\ TotalRefs(house, locals') <= MaxRefs
    /\ UNCHANGED house

\* r_i.unplug(n)
Unplug(i, n) ==
    /\ locals[i] # <<>>
    /\ locals' = [locals EXCEPT ![i] = <<unplug(locals[i][1], n)>>]
    /\ UNCHANGED house
    /\ Record(Call("unplug", i, SmartRoom_name(locals[i][1]), n, "", TRUE, "",
                    locals'[i] # locals[i]))

\* house.add(r_i) moves the room out of the caller's variable, whatever the
\* result; house.add(r_i.clone()) leaves the caller its copy.
Add(i, keep) ==
    /\ locals[i] # <<>>
    /\ LET r == add(house, locals[i][1])
       IN  /\ house' = r.self
           /\ Record(Call("add", i, SmartRoom_name(locals[i][1]), SmartRoom_name(locals[i][1]),
                          "", r.ok, r.out, r.self # house))
    /\ locals' = IF keep THEN locals ELSE [locals EXCEPT ![i] = <<>>]
    /\ TotalRefs(house', locals') <= MaxRefs

\* house.del(n)
Del(n) ==
    /\ house' = del(house, n)
    /\ UNCHANGED locals
    /\ Record(Call("del", 0, "", n, "", TRUE, "", house' # house))

\* house.create_report(rep): &self, the house cannot change
CreateReport(rep) ==
    /\ LET r == create_report(house, rep)
       IN  Record(Call("report", 0, "", rep, "", r.ok, r.out, FALSE))
    /\ UNCHANGED <<house, locals>>

Next ==
    \/ \E i \in Slots, n \in RoomNames : NewRoom(i, n)
    \/ \E i \in Slots, d \in Devices : Plug(i, d)
    \/ \E i \in Slots, n \in DevNames : Unplug(i, n)
    \/ \E i \in Slots, keep \in BOOLEAN : Add(i, keep)
    \/ \E n \in RoomNames : Del(n)
    \/ \E rep \in Reporters : CreateReport(rep)

Spec == Init /\ [][Next]_vars

TypeOK ==
    /\ house.name \in HouseNames
    /\ Len(house.rooms) <= Cardinality(RoomNames)
    /\ \A i \in Slots : Len(locals[i]) <= 1
    /\ scn \in ScenarioStages

\* ================================================================ claims
RoomNamesOf(h) == [i \in 1..Len(get_rooms(h)) |-> SmartRoom_name(get_rooms(h)[i])]

NoRepeat(s) == \A i, j \in 1..Len(s) : i # j => s[i] # s[j]

In(x, s) == \E i \in 1..Len(s) : s[i] = x

Live(i) == locals[i] # <<>>

\* Every item of pre is at its place in post, and post has one more, x, at its end.
AppendedTo(pre, post, x) ==
    /\ Len(post) = Len(pre) + 1
    /\ post[Len(post)] = x
    /\ \A k \in 1..Len(pre) : post[k] = pre[k]

\* Items that are in both sequences are in the same relative order in both,
\* and an item that is only in post is the last of post.
OrderKept(pre, post) ==
    /\ SelectSeq(pre, LAMBDA x : In(x, post)) = SelectSeq(post, LAMBDA x : In(x, pre))
    /\ \A k \in 1..Len(post) : ~In(post[k], pre) => k = Len(post)

\* C1: in every reachable state of the house, no two rooms of get_rooms()
\* have the same name.
C1_UniqueRoomNames == NoRepeat(RoomNamesOf(house))

\* A third add with a repeated name was refused by a house that holds three rooms.
C1_Witness ==
    /\ last.op = "add" /\ ~last.ok
    /\ Len(get_rooms(house)) = 3

\* C2: in every reachable state of a room, whether the caller holds it or the
\* house does, devices() contains no repeated name.
C2_UniqueDeviceNames ==
    /\ \A i \in Slots : Live(i) => NoRepeat(devices(locals[i][1]))
    /\ \A k \in 1..Len(get_rooms(house)) : NoRepeat(devices(get_rooms(house)[k]))

\* A room of three devices refused another object that bears the name of one it holds.
C2_Witness ==
    /\ last.op = "plug" /\ ~last.ok
    /\ Live(last.slot)
    /\ Len(locals[last.slot][1].devices) = 3
    /\ ~In(last.dev, locals[last.slot][1].devices)

\* C3: add(room) on a house that has a room of that name returns the error
\* "room <name> already constructed" and leaves the house as it was: the same
\* rooms, each with its devices, in the same order.
C3_AddDuplicateFails ==
    [][(last'.op = "add" /\ In(last'.arg, RoomNamesOf(house)))
         => /\ ~last'.ok
            /\ last'.out = "room " \o last'.arg \o " already constructed"
            /\ house' = house]_vars

\* A refused add whose room differs, in its devices, from the room of that name
\* the house keeps.
C3_Witness ==
    /\ last.op = "add" /\ ~last.ok
    /\ last.out = "room Kitchen already constructed"
    /\ Live(last.slot)
    /\ Len(get_rooms(house)) >= 2
    /\ \E k \in 1..Len(get_rooms(house)) :
          /\ SmartRoom_name(get_rooms(house)[k]) = SmartRoom_name(locals[last.slot][1])
          /\ get_rooms(house)[k].devices # locals[last.slot][1].devices

\* C4: plug(device) on a room that holds a device of that name (the same
\* object or another) returns the error "Device with name <name> already
\* pluged" and leaves the room as it was: the same device objects in the same order.
C4_PlugDuplicateFails ==
    [][\A i \in Slots :
         (last'.op = "plug" /\ last'.slot = i /\ Live(i)
            /\ In(last'.arg, devices(locals[i][1])))
         => /\ ~last'.ok
            /\ last'.out = "Device with name " \o last'.arg \o " already pluged"
            /\ locals'[i] = locals[i]]_vars

\* A refused plug of another object than the stored one of that name, in a room
\* of two devices.
C4_Witness ==
    /\ last.op = "plug" /\ ~last.ok
    /\ last.out = "Device with name Toaster already pluged"
    /\ last.dev = "d2"
    /\ Live(last.slot)
    /\ Len(locals[last.slot][1].devices) = 2
    /\ In("d1", locals[last.slot][1].devices)

\* C5: add(room) with a name no room of the house has, and plug(device) with a
\* name no device of the room has, return Ok and append: the new item is the
\* last, the length grows by one, every earlier item keeps its place.
C5_InsertAppends ==
    [][/\ (last'.op = "add" /\ ~In(last'.arg, RoomNamesOf(house)))
          => /\ last'.ok
             /\ Live(last'.slot)
             /\ AppendedTo(get_rooms(house), get_rooms(house'), locals[last'.slot][1])
       /\ \A i \in Slots :
            (last'.op = "plug" /\ last'.slot = i /\ Live(i)
               /\ ~In(last'.arg, devices(locals[i][1])))
            => /\ last'.ok
               /\ Live(i)'
               /\ AppendedTo(locals[i][1].devices, locals'[i][1].devices, last'.dev)]_vars

\* A room in which two plugs succeeded was added as the third room of the house.
C5_Witness ==
    /\ last.op = "add" /\ last.ok
    /\ Len(get_rooms(house)) = 3
    /\ Len(get_rooms(house)[3].devices) = 2
    /\ SmartRoom_name(get_rooms(house)[3]) = last.arg

\* C6: del(name) on a house without a room of that name, and unplug(name) on a
\* room without a device of that name, change nothing and raise no error.
C6_RemoveAbsentIsNoOp ==
    [][/\ (last'.op = "del" /\ ~In(last'.arg, RoomNamesOf(house)))
          => (house' = house /\ last'.ok)
       /\ \A i \in Slots :
            (last'.op = "unplug" /\ last'.slot = i /\ Live(i)
               /\ ~In(last'.arg, devices(locals[i][1])))
            => (locals'[i] = locals[i] /\ last'.ok)]_vars

\* unplug of a name the room does not hold, on a room of two devices.
C6_Witness ==
    /\ last.op = "unplug" /\ ~last.changed
    /\ Live(last.slot)
    /\ Len(locals[last.slot][1].devices) = 2
    /\ ~In(last.arg, devices(locals[last.slot][1]))

\* C7: get_rooms() and devices() list the present items in the order of the
\* calls that inserted them: no add, del, plug or unplug changes the relative
\* order of the items that stay, and an item that comes in comes in last.
C7_InsertionOrder ==
    [][/\ house' # house => OrderKept(RoomNamesOf(house), RoomNamesOf(house'))
       /\ \A i \in Slots :
            (last'.op \in {"plug", "unplug"} /\ last'.slot = i /\ locals'[i] # locals[i])
            => (Live(i)' /\ OrderKept(devices(locals[i][1]), devices(locals'[i][1])))]_vars

\* One of three devices was unplugged: two stay.
C7_Witness ==
    /\ last.op = "unplug" /\ last.changed
    /\ Live(last.slot)
    /\ Len(locals[last.slot][1].devices) = 2

\* C8: is_connected(device) is true exactly when the room holds a device of
\* that name: after a successful plug(d) it is true of every object of d's
\* name, after unplug(name) and in a new room it is false of every object of
\* the name, and it changes only by a plug or an unplug of that name.
C8_StateOfIsConnected ==
    \A i \in Slots : \A d \in Devices :
        Live(i) => (is_connected(locals[i][1], d)
                      <=> \E x \in Devices : /\ In(x, locals[i][1].devices)
                                             /\ Pluggable_name(x) = Pluggable_name(d))

C8_StepOfIsConnected ==
    \A i \in Slots : \A d \in Devices :
        /\ (last'.op = "plug" /\ last'.slot = i /\ last'.ok
              /\ last'.arg = Pluggable_name(d))
           => is_connected(locals'[i][1], d)
        /\ (last'.op = "unplug" /\ last'.slot = i /\ last'.arg = Pluggable_name(d))
           => ~is_connected(locals'[i][1], d)
        /\ (last'.op = "new" /\ last'.slot = i) => ~is_connected(locals'[i][1], d)
        /\ (Live(i) /\ Live(i)' /\ last'.op \in {"plug", "unplug"} /\ last'.slot = i
              /\ is_connected(locals[i][1], d) # is_connected(locals'[i][1], d))
           => last'.arg = Pluggable_name(d)

C8_IsConnectedByName == []C8_StateOfIsConnected /\ [][C8_StepOfIsConnected]_vars

\* d1 was plugged: another object of its name is connected, a device of another
\* name is not.
C8_Witness ==
    /\ last.op = "plug" /\ last.ok /\ last.dev = "d1"
    /\ Live(last.slot)
    /\ is_connected(locals[last.slot][1], "d2")
    /\ ~is_connected(locals[last.slot][1], "d3")

\* C9 as claimed: at the end of the end-to-end scenario the house the
\* reporter is given holds exactly one room, Kitchen, and that room holds
\* exactly one device, Toaster.
C9_PluggedAfterAddIsVisible ==
    scn = ScenarioDone
    => /\ RoomNamesOf(house) = <<"Kitchen">>
       /\ devices(get_rooms(house)[1]) = <<"Toaster">>

\* C9 as amended: at the end of the end-to-end scenario the house the reporter
\* is given holds exactly one room, Kitchen, as it was when add was called,
\* which is without devices; the Toaster is held by the caller's own Kitchen
\* only, and the reports show the house without it.
C9_ScenarioReport ==
    scn = ScenarioDone
    => /\ RoomNamesOf(house) = <<"Kitchen">>
       /\ devices(get_rooms(house)[1]) = <<>>
       /\ \E i \in Slots : /\ Live(i)
                           /\ SmartRoom_name(locals[i][1]) = "Kitchen"
                           /\ devices(locals[i][1]) = <<"Toaster">>
       /\ last.op = "report"
       /\ (last.arg = "InventoryReport" => (last.ok /\ last.out = "H:Kitchen[]"))

\* The scenario was run to its end, with the report that lists the devices.
C9_Witness ==
    /\ scn = ScenarioDone
    /\ last.arg = "InventoryReport"

\* C10: create_report(reporter) returns what reporter.make returns for the
\* house, the same string on Ok and the same error on Err, and leaves the
\* house as it was.
C10_ReportDelegates ==
    [][last'.op = "report"
         => /\ [ok |-> last'.ok, out |-> last'.out] = make(last'.arg, house)
            /\ house' = house]_vars

\* A reporter failed on a house that holds rooms, and its error came back.
C10_Witness ==
    /\ last.op = "report" /\ ~last.ok
    /\ last.out = "report failed for H"
    /\ Len(get_rooms(house)) >= 2

\* ------------------------------------------------ room equality (C11)
\* Rooms to compare: two names, and device lists that differ in length, in
\* the objects held and in their order.
EqRooms ==
    {[name |-> n, devices |-> ds] :
        n \in {"Kitchen", "Office"},
        ds \in {<<>>, <<"d1">>, <<"d2">>, <<"d1", "d3">>, <<"d3", "d1">>}}

EqSlots == {1, 2, 3}

InitEq ==
    /\ house \in {SmartHouse_new(n) : n \in HouseNames}
    /\ locals \in [EqSlots -> {<<r>> : r \in EqRooms}]
    /\ last = Call("init", 0, "", "", "", TRUE, "", FALSE)
    /\ scn = "off"
    /\ twin = <<>>

\* r_i == r_j
Eq(i, j) ==
    /\ last' = [op |-> "eq", slot |-> i, other |-> j, ok |-> eq(locals[i][1], locals[j][1])]
    /\ UNCHANGED <<house, locals, scn, twin>>

NextEq == \E i, j \in EqSlots : Eq(i, j)

SpecEq == InitEq /\ [][NextEq]_vars

\* C11: two rooms compare equal exactly when their names are equal, whatever
\* devices each holds, and the relation is reflexive, symmetric and transitive.
C11_EqualByName ==
    /\ \A i, j \in EqSlots :
          /\ eq(locals[i][1], locals[j][1])
                <=> SmartRoom_name(locals[i][1]) = SmartRoom_name(locals[j][1])
          /\ eq(locals[i][1], locals[j][1]) => eq(locals[j][1], locals[i][1])
    /\ \A i \in EqSlots : eq(locals[i][1], locals[i][1])
    /\ \A i, j, k \in EqSlots :
          (eq(locals[i][1], locals[j][1]) /\ eq(locals[j][1], locals[k][1]))
          => eq(locals[i][1], locals[k][1])
    /\ last.op = "eq"
          => (last.ok <=> SmartRoom_name(locals[last.slot][1])
                             = SmartRoom_name(locals[last.other][1]))

\* A room with devices compared equal to an empty room of its name, while a
\* third room with the same devices and another name is not equal to it.
C11_Witness ==
    /\ last.op = "eq" /\ last.ok
    /\ locals[last.slot][1].devices # <<>>
    /\ locals[last.other][1].devices = <<>>
    /\ \E k \in EqSlots :
          /\ locals[k][1].devices = locals[last.slot][1].devices
          /\ ~eq(locals[k][1], locals[last.slot][1])

\* ------------------------------------------------------ Display (C12)
\* The lines the documentation gives, for the names of the model.
HouseLine(n) == CASE n = "H" -> "-> House: H\n"

RoomLineOf(n) ==
    CASE n = "Kitchen" -> "--> Room: Kitchen\n"
      [] n = "Office"  -> "--> Room: Office\n"
      [] n = "Hall"    -> "--> Room: Hall\n"

\* Every room there is: those of the house and those the caller holds.
AllRooms ==
    {get_rooms(house)[k] : k \in 1..Len(get_rooms(house))}
    \cup {locals[i][1] : i \in {j \in DOMAIN locals : locals[j] # <<>>}}

\* C12: a house displays as "-> House: <name>" and one newline, a room as
\* "--> Room: <name>" and one newline, whatever rooms and devices they hold.
C12_DisplayExact ==
    /\ SmartHouse_fmt(house) = HouseLine(SmartHouse_name(house))
    /\ SmartHouse_fmt(house) = SmartHouse_fmt(SmartHouse_new(SmartHouse_name(house)))
    /\ \A r \in AllRooms :
          /\ SmartRoom_fmt(r) = RoomLineOf(SmartRoom_name(r))
          /\ SmartRoom_fmt(r) = SmartRoom_fmt(SmartRoom_new(SmartRoom_name(r)))

\* A house of two rooms, one with a device, and a caller's room with devices
\* display as the bare lines.
C12_Witness ==
    /\ Len(get_rooms(house)) = 2
    /\ get_rooms(house)[1].devices # <<>>
    /\ SmartHouse_fmt(house) = "-> House: H\n"
    /\ Live(1)
    /\ Len(locals[1][1].devices) = 2
    /\ SmartRoom_fmt(locals[1][1]) = "--> Room: Kitchen\n"

\* ------------------------------------------------ removal (C13, C14)
\* s without the items whose key is x (keys lists the keys of s in order).
Without(s, keys, x) ==
    LET kept == SelectSeq([k \in 1..Len(s) |-> <<keys[k], s[k]>>], LAMBDA p : p[1] # x)
    IN  [k \in 1..Len(kept) |-> kept[k][2]]

\* C13: after del(name) the house has no room of that name, every other room
\* is still there, as it was and in its previous relative order, and an add of
\* a room of that name that follows succeeds.
C13_DelRemoves ==
    [][/\ last'.op = "del"
          => /\ ~In(last'.arg, RoomNamesOf(house'))
             /\ get_rooms(house') = Without(get_rooms(house), RoomNamesOf(house), last'.arg)
       /\ (last.op = "del" /\ last'.op = "add" /\ last'.arg = last.arg)
          => (last'.ok /\ In(last.arg, RoomNamesOf(house')))]_vars

\* del removed one of three rooms: two stay.
C13_Witness ==
    /\ last.op = "del" /\ last.changed
    /\ Len(get_rooms(house)) = 2
    /\ ~In(last.arg, RoomNamesOf(house))
    /\ get_rooms(house)[1].devices # <<>>

\* C14: after unplug(name) is_connected is false of every device of that
\* name and devices() does not list the name; one device is gone when the
\* name was there, the others stay as they were; a plug of a device of that
\* name that follows succeeds.
C14_UnplugRemoves ==
    [][\A i \in DOMAIN locals :
         /\ (last'.op = "unplug" /\ last'.slot = i /\ Live(i))
            => /\ Live(i)'
               /\ \A d \in Devices :
                     Pluggable_name(d) = last'.arg => ~is_connected(locals'[i][1], d)
               /\ ~In(last'.arg, devices(locals'[i][1]))
               /\ In(last'.arg, devices(locals[i][1]))
                     => Len(locals'[i][1].devices) = Len(locals[i][1].devices) - 1
               /\ locals'[i][1].devices
                     = Without(locals[i][1].devices, devices(locals[i][1]), last'.arg)
               /\ SmartRoom_name(locals'[i][1]) = SmartRoom_name(locals[i][1])
         /\ (last.op = "unplug" /\ last.slot = i /\ last'.op = "plug" /\ last'.slot = i
               /\ last'.arg = last.arg)
            => (last'.ok /\ In(last.arg, devices(locals'[i][1])))]_vars

\* unplug took the Toaster out of a room of three devices: no object of that
\* name is connected, two devices stay.
C14_Witness ==
    /\ last.op = "unplug" /\ last.changed /\ last.arg = "Toaster"
    /\ Live(last.slot)
    /\ Len(locals[last.slot][1].devices) = 2
    /\ ~is_connected(locals[last.slot][1], "d1")
    /\ ~is_connected(locals[last.slot][1], "d2")

\* ------------------------------------------------ rooms held by the house (C15)
\* C15: a room that is in the house keeps the devices it had when add was
\* called until it is deleted: at every step, a room of the house whose name
\* was in the house before is the room that was there, whatever was called
\* (add, del, create_report, or plug/unplug on a room of the caller), and a
\* room whose name is new is the argument of a successful add, as it was then.
C15_HouseKeepsRooms ==
    [][\A k \in 1..Len(get_rooms(house')) :
         LET r == get_rooms(house')[k]
         IN  IF In(SmartRoom_name(r), RoomNamesOf(house))
             THEN In(r, get_rooms(house))
             ELSE /\ last'.op = "add" /\ last'.ok
                  /\ Live(last'.slot)
                  /\ r = locals[last'.slot][1]]_vars

\* The caller plugged a device into its own copy of a room that the house
\* holds with one device: the copy has two, the house still shows the one.
C15_Witness ==
    /\ last.op = "plug" /\ last.ok
    /\ Live(last.slot)
    /\ Len(locals[last.slot][1].devices) = 2
    /\ \E k \in 1..Len(get_rooms(house)) :
          /\ SmartRoom_name(get_rooms(house)[k]) = SmartRoom_name(locals[last.slot][1])
          /\ Len(get_rooms(house)[k].devices) = 1

\* ------------------------------------------------ clones and two rooms (C16, C17)
\* A clone that copies the device objects too: the copy of a Toaster is
\* another object of that name.
SmartRoom_clone_deep(self) ==
    [self EXCEPT !.devices =
        [k \in 1..Len(@) |-> IF @[k] = "d1" THEN "d2" ELSE IF @[k] = "d2" THEN "d1" ELSE @[k]]]

\* derive(Clone) on SmartRoom: the name and the Vec are copied, each Arc in it
\* is cloned, which shares the device object.
SmartRoom_clone(self) ==
    [name |-> self.name, devices |-> [k \in 1..Len(self.devices) |-> self.devices[k]]]

\* derive(Clone) on SmartHouse: the name is copied and each room is cloned.
SmartHouse_clone(self) ==
    [name |-> self.name, rooms |-> [k \in 1..Len(self.rooms) |-> SmartRoom_clone(self.rooms[k])]]

TwoSlots == {1, 2}
TwoRooms == {"Kitchen", "Office"}
TwoDevices == {"d1", "d3"}
ThreeDevices == {"d1", "d2", "d3"}
TwoDevNames == {"Toaster", "Mixer"}

\* The most device references that the rooms of the caller, of the house and
\* of its clone hold together when two rooms and a clone are in play.
MaxTwoRefs == 2

FitsTwo == TotalRefs(house', locals') - TwinRefs(twin) + TwinRefs(twin') <= MaxTwoRefs

InitTwo ==
    /\ house \in {SmartHouse_new(n) : n \in HouseNames}
    /\ locals = [i \in TwoSlots |-> <<>>]
    /\ last = Call("init", 0, "", "", "", TRUE, "", FALSE)
    /\ scn = "off"
    /\ twin = <<>>

RecordTwin(c, t) ==
    /\ last' = c
    /\ scn' = ScenarioStep(scn, c)
    /\ twin' = t
    /\ TotalRefs(house, locals') - TwinRefs(twin) + TwinRefs(t) <= MaxRefs

\* let mut r_j = r_i.clone();
CloneRoom(i, j) ==
    /\ i # j
    /\ locals[i] # <<>>
    /\ locals' = [locals EXCEPT ![j] = <<SmartRoom_clone(locals[i][1])>>]
    /\ TotalRefs(house, locals') <= MaxRefs
    /\ UNCHANGED house
    /\ Record(Call("clone", j, SmartRoom_name(locals[i][1]), "", "", TRUE, "",
                    locals'[j] # locals[j]))

\* let mut twin = house.clone();
CloneHouse ==
    /\ UNCHANGED <<house, locals>>
    /\ RecordTwin(Call("hclone", 0, "", "", "", TRUE, "", twin # <<SmartHouse_clone(house)>>),
                  <<SmartHouse_clone(house)>>)

\* twin.add(r_i) or twin.add(r_i.clone())
TwinAdd(i, keep) ==
    /\ twin # <<>>
    /\ locals[i] # <<>>
    /\ locals' = IF keep THEN locals ELSE [locals EXCEPT ![i] = <<>>]
    /\ UNCHANGED house
    /\ LET r == add(twin[1], locals[i][1])
       IN  RecordTwin(Call("tadd", i, SmartRoom_name(locals[i][1]),
                           SmartRoom_name(locals[i][1]), "", r.ok, r.out, r.self # twin[1]),
                      <<r.self>>)

\* twin.del(n)
TwinDel(n) ==
    /\ twin # <<>>
    /\ UNCHANGED <<house, locals>>
    /\ RecordTwin(Call("tdel", 0, "", n, "", TRUE, "", del(twin[1], n) # twin[1]),
                  <<del(twin[1], n)>>)

NextTwo ==
    \/ \E i \in TwoSlots, n \in TwoRooms : NewRoom(i, n) /\ FitsTwo
    \/ \E i \in TwoSlots, d \in TwoDevices : Plug(i, d) /\ FitsTwo
    \/ \E i \in TwoSlots, n \in TwoDevNames : Unplug(i, n) /\ FitsTwo
    \/ \E i \in TwoSlots, keep \in BOOLEAN : Add(i, keep) /\ FitsTwo
    \/ \E n \in TwoRooms : Del(n) /\ FitsTwo
    \/ \E i, j \in TwoSlots : CloneRoom(i, j) /\ FitsTwo
    \/ CloneHouse /\ FitsTwo
    \/ \E i \in TwoSlots, keep \in BOOLEAN : TwinAdd(i, keep) /\ FitsTwo
    \/ \E n \in TwoRooms : TwinDel(n) /\ FitsTwo

SpecTwo == InitTwo /\ [][NextTwo]_vars

\* Two rooms of the caller and a house without a clone, with two objects of
\* one name among the devices.
NextRooms ==
    \/ \E i \in TwoSlots, n \in TwoRooms : NewRoom(i, n)
    \/ \E i \in TwoSlots, d \in ThreeDevices : Plug(i, d)
    \/ \E i \in TwoSlots, n \in TwoDevNames : Unplug(i, n)
    \/ \E i \in TwoSlots : Add(i, FALSE)
    \/ \E n \in TwoRooms : Del(n)

SpecRooms == InitTwo /\ [][NextRooms]_vars

\* C16: a clone of a room has the name and the very device objects of the
\* original, in order, and a clone of a house its name and rooms; cloning
\* leaves the original as it was; afterwards plug/unplug on one room changes
\* no other room, add/del on the house do not change its clone, and add/del
\* on the clone do not change the house.
C16_ClonesIndependent ==
    [][/\ last'.op = "clone"
          => \E i \in DOMAIN locals \ {last'.slot} :
                /\ Live(i) /\ locals'[i] = locals[i]
                /\ SmartRoom_name(locals'[last'.slot][1]) = SmartRoom_name(locals[i][1])
                /\ locals'[last'.slot][1].devices = locals[i][1].devices
       /\ last'.op = "hclone"
          => /\ house' = house
             /\ twin' # <<>>
             /\ SmartHouse_name(twin'[1]) = SmartHouse_name(house)
             /\ get_rooms(twin'[1]) = get_rooms(house)
       /\ last'.op \in {"plug", "unplug"}
          => /\ \A j \in DOMAIN locals \ {last'.slot} : locals'[j] = locals[j]
             /\ house' = house /\ twin' = twin
       /\ last'.op \in {"add", "del"} => twin' = twin
       /\ last'.op \in {"tadd", "tdel"} => house' = house]_vars

\* The Toaster was unplugged from a room whose clone holds the same object d1:
\* the clone still has it; and the clone of the house got a room the house
\* does not have.
C16_Witness ==
    /\ last.op = "unplug" /\ last.changed /\ last.slot = 1
    /\ Live(1) /\ Live(2)
    /\ SmartRoom_name(locals[1][1]) = SmartRoom_name(locals[2][1])
    /\ locals[1][1].devices = <<>>
    /\ locals[2][1].devices = <<"d1">>
    /\ twin # <<>>
    /\ get_rooms(house) = <<>>
    /\ Len(get_rooms(twin[1])) = 1

\* C17: plug looks at the room it is called on only: it succeeds exactly when
\* that room has no device of the name, whatever the other rooms hold, so one
\* object, or two of one name, can be in two rooms at once; plug and unplug
\* on one room leave the device list and every is_connected of the other
\* rooms, in the caller's hands or in a house, as they were.
C17_PerRoomUniqueness ==
    [][last'.op \in {"plug", "unplug"}
         => /\ last'.op = "plug"
               => (last'.ok <=> ~In(last'.arg, devices(locals[last'.slot][1])))
            /\ \A j \in DOMAIN locals \ {last'.slot} :
                  /\ Live(j) <=> Live(j)'
                  /\ Live(j) =>
                       /\ locals'[j][1].devices = locals[j][1].devices
                       /\ \A d \in Devices :
                             is_connected(locals'[j][1], d) = is_connected(locals[j][1], d)
            /\ get_rooms(house') = get_rooms(house)]_vars

\* The object d1 is in Kitchen and in Office at once, the second plug having
\* succeeded, while a room of the house holds d2, of the same name.
C17_Witness ==
    /\ last.op = "plug" /\ last.ok /\ last.dev = "d1" /\ last.slot = 2
    /\ Live(1) /\ Live(2)
    /\ SmartRoom_name(locals[1][1]) # SmartRoom_name(locals[2][1])
    /\ locals[1][1].devices = <<"d1">>
    /\ locals[2][1].devices = <<"d1">>
    /\ \E k \in 1..Len(get_rooms(house)) : get_rooms(house)[k].devices = <<"d2">>

====
